---------------------------- MODULE Spec2Model ----------------------------
(***************************************************************************)
(* Billing core of the clinic-management backend.                          *)
(*                                                                         *)
(* Three parts of the repository are modelled, each with its own           *)
(* specifications over its own variables:                                  *)
(*   SpecInvoice  the Mongoose Invoice model (src/unnamed/part_003):       *)
(*                documents loaded into memory, the instance methods and   *)
(*                the pre('save') hook, and the stored document;           *)
(*   SpecRace     the same model with two callers, each applying payments  *)
(*                to its own loaded copy of the invoice;                   *)
(*   SpecPayment  the Mongoose Payment model (src/models/LabTest.js);      *)
(*   Spec         SubscriptionService over the SQL schema                  *)
(*                (src/unnamed/part_000, src/unnamed/part_007).            *)
(*                                                                         *)
(* Money is counted in whole currency units and tax rates in percent; the  *)
(* inputs are chosen so that every product line total * rate / 100 is      *)
(* exact.  Dates are values of a day clock; 0 is an unset date.            *)
(***************************************************************************)
EXTENDS Integers, Sequences, FiniteSets, TLC

VARIABLES
    \* ---- Mongoose Invoice model ----
    invStore,     \* the stored invoice document (NoDoc before creation)
    docs,         \* per caller: the invoice document instance held in memory
    now,          \* the day clock read by new Date()
    applied,      \* amounts of the addPayment calls whose save succeeded
    lastSave,     \* outcome of the last save(): "none", "ok", "ValidationError", "VersionError"
    \* ---- Mongoose Payment model ----
    payStore,     \* the stored payment document (NoDoc before creation)
    payDoc,       \* the payment document instance held in memory
    payLast,      \* the last method call: its name, argument, outcome and the document before it
    \* ---- SubscriptionService over the SQL schema ----
    subscriptions, \* table tenant_subscriptions: rows in insertion order, id = position
    invoices,     \* table invoices: id -> row
    payments,     \* table payments: rows in insertion order, id = position
    events,       \* table billing_events: rows in insertion order
    usage,        \* table usage_metrics: rows in insertion order
    reqs,         \* per worker: the createPayment request it is executing
    last,         \* the response of the request that ended last
    ctx,          \* req.tenant.id of the request whose statement ran last
    nreq,         \* number of requests handled that count against MaxRequests
    \* ---- tenant middleware of the subscription router ----
    mw,           \* the request that went through the middleware chain last, and its outcome
    limiter,      \* a tenantRateLimitMiddleware instance: its parameters, map and clock
    tenants       \* table tenants: the rows the middleware's lookup reads

invVars == <<invStore, docs, now, applied, lastSave>>
payVars == <<payStore, payDoc, payLast>>
svcVars == <<subscriptions, invoices, payments, events, usage, reqs, last, ctx, nreq>>
mwVars == <<mw, limiter, tenants>>

vars == <<invStore, docs, now, applied, lastSave, payStore, payDoc, payLast,
          subscriptions, invoices, payments, events, usage, reqs, last, ctx, nreq,
          mw, limiter, tenants>>

----------------------------------------------------------------------------
(* Bounds of the model *)

MaxItems == 2        \* items held by one invoice
MaxClock == 2        \* last day of the clock
MaxPaid  == 220      \* cap on the accumulated paid_amount
MaxApplied == 2      \* addPayment calls followed per run
MaxVersion == 2      \* cap on the stored __v (array changes followed per run)
MaxAllocations == 2  \* allocations pushed to one payment

(* Two callers, each holding its own loaded copy of the invoice. *)
Copies == {"c1", "c2"}
Owner == "c1"

----------------------------------------------------------------------------
(* ---------------- Mongoose Invoice model (part_003) ---------------- *)

NoDoc == [exists |-> FALSE]

(* Items a caller passes to the constructor or to addItem.  total is      *)
(* required by the schema, so the caller supplies one; the hook overwrites *)
(* it.                                                                     *)
ItemPool ==
    { [quantity |-> 2, unit_price |-> 50, discount |-> 0,  tax_rate |-> 10, total |-> 0],
      [quantity |-> 1, unit_price |-> 50, discount |-> 10, tax_rate |-> 10, total |-> 0],
      [quantity |-> 1, unit_price |-> 20, discount |-> 10, tax_rate |-> 0,  total |-> 0] }

(* Partial updates passed to updateItem. *)
ItemUpdates ==
    { [field |-> "quantity", value |-> 2],
      [field |-> "discount", value |-> 10] }

PaymentAmounts == {40, 55, 70, 110}

DueDates == {1}

InvoiceStatus == {"draft", "sent", "overdue", "paid", "partially_paid", "cancelled", "written_off"}

RECURSIVE SumSeq(_)
SumSeq(s) == IF s = <<>> THEN 0 ELSE Head(s) + SumSeq(Tail(s))

(* (item.unit_price * item.quantity) - item.discount *)
ItemTotal(item) == (item.unit_price * item.quantity) - item.discount

(* itemTotal * item.tax_rate, the rate in percent *)
ItemTax(item) == (ItemTotal(item) * item.tax_rate) \div 100

(* A hook that leaves the tax out of the total. *)
TotalAmountNoTax(subtotal, taxAmount) == subtotal

(* totals.total_amount as the hook assigns it *)
TotalAmount(subtotal, taxAmount) == subtotal + taxAmount

(* virtual days_overdue, for a document d at day t *)
DaysOverdue(d, t) ==
    IF d.status = "paid" \/ d.status = "cancelled" THEN 0
    ELSE IF d.due_date = 0 THEN 0
    ELSE t - d.due_date

(* virtual is_overdue *)
IsOverdue(d, t) == DaysOverdue(d, t) > 0 /\ d.status # "paid"

(* Schema validators; Mongoose runs them on the document before the       *)
(* pre('save') hooks.                                                      *)
ItemValid(item) ==
    /\ item.quantity >= 1
    /\ item.unit_price >= 0
    /\ item.discount >= 0
    /\ item.tax_rate >= 0 /\ item.tax_rate <= 100
    /\ item.total >= 0

Validate(d) ==
    /\ \A i \in 1..Len(d.items) : ItemValid(d.items[i])
    /\ d.subtotal >= 0
    /\ d.discount_amount >= 0
    /\ d.tax_amount >= 0
    /\ d.total_amount >= 0
    /\ d.paid_amount >= 0
    /\ d.balance_due >= 0
    /\ d.status \in InvoiceStatus
    /\ d.due_date # 0

(* Paths of the document written with $set when they were modified. *)
ScalarPaths == {"subtotal", "discount_amount", "tax_amount", "total_amount",
                "paid_amount", "balance_due", "status", "sent_at", "paid_at", "due_date"}

(* An assignment to a path marks it modified when the value changes. *)
Assign(d, path, value) ==
    [d EXCEPT ![path] = value,
              !.modified = IF d[path] # value THEN @ \cup {path} ELSE @]

(* Status derivation at the end of the hook. *)
DeriveStatus(d, t) ==
    IF d.balance_due <= 0 /\ d.paid_amount > 0 THEN "paid"
    ELSE IF d.paid_amount > 0 /\ d.balance_due > 0 THEN "partially_paid"
    ELSE IF IsOverdue(d, t) /\ d.status # "cancelled" THEN "overdue"
    ELSE d.status

(* A hook that stamps paid_at at every save of a paid invoice *)
PreSaveRestamp(d, t) ==
    LET items1 == [i \in 1..Len(d.items) |->
                       [d.items[i] EXCEPT !.total = ItemTotal(d.items[i])]]
        changed == {i \in 1..Len(d.items) : items1[i] # d.items[i]}
        subtotal == SumSeq([i \in 1..Len(items1) |-> ItemTotal(items1[i])])
        taxAmount == SumSeq([i \in 1..Len(items1) |-> ItemTax(items1[i])])
        d1 == [d EXCEPT !.items = items1, !.itemMod = @ \cup changed]
        d2 == Assign(d1, "subtotal", subtotal)
        d3 == Assign(d2, "discount_amount",
                     SumSeq([i \in 1..Len(items1) |-> items1[i].discount]))
        d4 == Assign(d3, "tax_amount", taxAmount)
        d5 == Assign(d4, "total_amount", TotalAmount(subtotal, taxAmount))
        d6 == Assign(d5, "balance_due", d5.total_amount - d5.paid_amount)
        st == DeriveStatus(d6, t)
        d7 == Assign(d6, "status", st)
    IN  IF st = "paid" THEN Assign(d7, "paid_at", t) ELSE d7

(* invoiceSchema.pre('save') *)
PreSave(d, t) ==
    LET items1 == [i \in 1..Len(d.items) |->
                       [d.items[i] EXCEPT !.total = ItemTotal(d.items[i])]]
        changed == {i \in 1..Len(d.items) : items1[i] # d.items[i]}
        subtotal == SumSeq([i \in 1..Len(items1) |-> ItemTotal(items1[i])])
        taxAmount == SumSeq([i \in 1..Len(items1) |-> ItemTax(items1[i])])
        d1 == [d EXCEPT !.items = items1, !.itemMod = @ \cup changed]
        d2 == Assign(d1, "subtotal", subtotal)
        d3 == Assign(d2, "discount_amount",
                     SumSeq([i \in 1..Len(items1) |-> items1[i].discount]))
        d4 == Assign(d3, "tax_amount", taxAmount)
        d5 == Assign(d4, "total_amount", TotalAmount(subtotal, taxAmount))
        d6 == Assign(d5, "balance_due", d5.total_amount - d5.paid_amount)
        st == DeriveStatus(d6, t)
        d7 == Assign(d6, "status", st)
    IN  IF st = "paid" /\ d7.paid_at = 0 THEN Assign(d7, "paid_at", t) ELSE d7

(* A document as the collection returns it: nothing modified yet. *)
Clean(d) == [d EXCEPT !.modified = {}, !.itemMod = {}, !.pushed = 0, !.saved = FALSE]

(* new Invoice({items, invoice_info.due_date, totals}) with the schema defaults *)
NewInvoice(items, due) ==
    [exists |-> TRUE, items |-> items, subtotal |-> 0, discount_amount |-> 0,
     tax_amount |-> 0, total_amount |-> 0, paid_amount |-> 0, balance_due |-> 0,
     status |-> "draft", sent_at |-> 0, paid_at |-> 0, due_date |-> due,
     version |-> 0, modified |-> {}, itemMod |-> {}, pushed |-> 0, saved |-> FALSE]

(* Indices of d's items that are already stored (not pushed since the last save). *)
StoredIdx(d) == 1..(Len(d.items) - d.pushed)

(* The update needs the stored __v to match: a whole-array $set or a       *)
(* positional $set of an element of items.                                 *)
NeedsVersion(d) == "items" \in d.modified \/ (d.itemMod \cap StoredIdx(d)) # {}

(* The update increments __v: $push or a $set of the whole array. *)
IncVersion(d) == d.pushed > 0 \/ "items" \in d.modified

(* The items stored by the update document of save(): $set of the array,  *)
(* else positional $set of the modified elements and $push of the new ones *)
PersistItems(s, d) ==
    IF "items" \in d.modified THEN d.items
    ELSE LET n == Len(d.items) - d.pushed
             pos == [i \in 1..Len(s.items) |->
                        IF i \in d.itemMod /\ i <= n THEN d.items[i] ELSE s.items[i]]
         IN  pos \o SubSeq(d.items, n + 1, Len(d.items))

(* The stored document after save() of the in-memory document d: only the *)
(* modified paths are written.                                             *)
Persist(s, d) ==
    [exists |-> TRUE,
     items |-> PersistItems(s, d),
     subtotal |-> IF "subtotal" \in d.modified THEN d.subtotal ELSE s.subtotal,
     discount_amount |-> IF "discount_amount" \in d.modified THEN d.discount_amount ELSE s.discount_amount,
     tax_amount |-> IF "tax_amount" \in d.modified THEN d.tax_amount ELSE s.tax_amount,
     total_amount |-> IF "total_amount" \in d.modified THEN d.total_amount ELSE s.total_amount,
     paid_amount |-> IF "paid_amount" \in d.modified THEN d.paid_amount ELSE s.paid_amount,
     balance_due |-> IF "balance_due" \in d.modified THEN d.balance_due ELSE s.balance_due,
     status |-> IF "status" \in d.modified THEN d.status ELSE s.status,
     sent_at |-> IF "sent_at" \in d.modified THEN d.sent_at ELSE s.sent_at,
     paid_at |-> IF "paid_at" \in d.modified THEN d.paid_at ELSE s.paid_at,
     due_date |-> IF "due_date" \in d.modified THEN d.due_date ELSE s.due_date,
     version |-> IF IncVersion(d) THEN s.version + 1 ELSE s.version,
     modified |-> {}, itemMod |-> {}, pushed |-> 0, saved |-> FALSE]

(* document.save() of caller c's instance d (already changed by the       *)
(* method): validation, then the pre('save') hook, then the write.         *)
(* pay is the amount of the addPayment that called it, 0 otherwise.        *)
(* A rejected save rejects the method's promise; the caller's use of the   *)
(* instance ends there, and it loads the document again to go on.          *)
Save(c, d, pay) ==
    IF ~Validate(d)
    THEN /\ docs' = [docs EXCEPT ![c] = NoDoc]
         /\ lastSave' = "ValidationError"
         /\ UNCHANGED <<invStore, applied>>
    ELSE LET h == PreSave(d, now) IN
         IF invStore.exists /\ NeedsVersion(h) /\ invStore.version # h.version
         THEN /\ docs' = [docs EXCEPT ![c] = NoDoc]
              /\ lastSave' = "VersionError"
              /\ UNCHANGED <<invStore, applied>>
         ELSE LET s == IF invStore.exists THEN Persist(invStore, h)
                       ELSE Clean(h)
              IN  /\ invStore' = s
                  /\ docs' = [docs EXCEPT ![c] =
                        [Clean(h) EXCEPT !.saved = TRUE,
                                         !.version = IF IncVersion(h) /\ invStore.exists
                                                     THEN @ + 1 ELSE @]]
                  /\ lastSave' = "ok"
                  /\ applied' = IF pay > 0 THEN Append(applied, pay) ELSE applied

(* new Invoice(...).save() *)
CreateInvoiceDoc(c) ==
    /\ ~invStore.exists
    /\ \E n \in 0..MaxItems : \E items \in [1..n -> ItemPool] : \E due \in DueDates :
          Save(c, NewInvoice(items, due), 0)
    /\ UNCHANGED <<now, payVars, svcVars, mwVars>>

(* Invoice.findById(...): caller c loads its own copy. *)
Load(c) ==
    /\ invStore.exists
    /\ docs' = [docs EXCEPT ![c] = Clean(invStore)]
    /\ UNCHANGED <<invStore, now, applied, lastSave, payVars, svcVars, mwVars>>

(* invoiceSchema.methods.addItem *)
AddItem(c) ==
    /\ docs[c].exists
    /\ Len(docs[c].items) < MaxItems /\ Len(invStore.items) < MaxItems
    /\ invStore.version < MaxVersion
    /\ \E item \in ItemPool :
          Save(c, [docs[c] EXCEPT !.items = Append(@, item), !.pushed = @ + 1], 0)
    /\ UNCHANGED <<now, payVars, svcVars, mwVars>>

(* The array without its element at position i. *)
Without(items, i) == SubSeq(items, 1, i - 1) \o SubSeq(items, i + 1, Len(items))

(* invoiceSchema.methods.removeItem; itemId 0 matches no item. *)
RemoveItem(c) ==
    /\ docs[c].exists
    /\ invStore.version < MaxVersion
    /\ \E i \in 0..Len(docs[c].items) :
          Save(c, IF i = 0 THEN docs[c]
                  ELSE [docs[c] EXCEPT !.items = Without(@, i),
                                       !.modified = @ \cup {"items"},
                                       !.pushed = 0], 0)
    /\ UNCHANGED <<now, payVars, svcVars, mwVars>>

(* invoiceSchema.methods.updateItem; itemId 0 matches no item. *)
UpdateItem(c) ==
    /\ docs[c].exists
    /\ \E i \in 0..Len(docs[c].items) : \E u \in ItemUpdates :
          Save(c, IF i = 0 \/ docs[c].items[i][u.field] = u.value THEN docs[c]
                  ELSE [docs[c] EXCEPT !.items[i][u.field] = u.value,
                                       !.itemMod = @ \cup {i}], 0)
    /\ UNCHANGED <<now, payVars, svcVars, mwVars>>

(* invoiceSchema.methods.send *)
Send(c) ==
    /\ docs[c].exists
    /\ Save(c, Assign(Assign(docs[c], "status", "sent"), "sent_at", now), 0)
    /\ UNCHANGED <<now, payVars, svcVars, mwVars>>

(* invoiceSchema.methods.addPayment *)
AddPayment(c) ==
    /\ docs[c].exists
    /\ Len(applied) < MaxApplied
    /\ \E amount \in PaymentAmounts :
          /\ docs[c].paid_amount + amount <= MaxPaid
          /\ Save(c, Assign(docs[c], "paid_amount", docs[c].paid_amount + amount), amount)
    /\ UNCHANGED <<now, payVars, svcVars, mwVars>>

(* invoiceSchema.methods.cancel *)
Cancel(c) ==
    /\ docs[c].exists
    /\ Save(c, Assign(docs[c], "status", "cancelled"), 0)
    /\ UNCHANGED <<now, payVars, svcVars, mwVars>>

(* invoiceSchema.methods.writeOff *)
WriteOff(c) ==
    /\ docs[c].exists
    /\ Save(c, Assign(Assign(docs[c], "status", "written_off"), "balance_due", 0), 0)
    /\ UNCHANGED <<now, payVars, svcVars, mwVars>>

(* A day passes. *)
Tick ==
    /\ now < MaxClock
    /\ now' = now + 1
    /\ UNCHANGED <<invStore, docs, applied, lastSave, payVars, svcVars, mwVars>>

----------------------------------------------------------------------------
(* ---------------- Mongoose Payment model (LabTest.js) ---------------- *)

PaymentStatus == {"pending", "processing", "completed", "failed", "cancelled",
                  "refunded", "partially_refunded"}

(* payment_info.amount of the payments created *)
PayAmounts == {110}

(* Invoices and amounts passed to allocateToInvoice() *)
AllocationInvoices == {1, 2}
AllocationAmounts == {-10, 40, 70}

(* Amounts passed to refund() *)
RefundAmounts == {-30, 0, 30, 50, 90, 110}

(* new Payment({payment_info: {amount}}) with the schema defaults *)
NewPayment(amount) ==
    [exists |-> TRUE, amount |-> amount, status |-> "pending", refund_amount |-> 0,
     processed_at |-> 0, refunded_at |-> 0, allocation |-> <<>>]

(* Schema validators of the payment, run before the pre('save') hook. *)
PaymentValid(d) ==
    /\ d.amount >= 0
    /\ d.refund_amount >= 0
    /\ d.status \in PaymentStatus
    /\ \A i \in 1..Len(d.allocation) : d.allocation[i].amount >= 0

(* paymentSchema.pre('save'): TRUE when the hook passes *)
PaymentPreSave(d) == ~(d.refund_amount > d.amount)

(* virtual refundable_amount *)
RefundableAmount(d) ==
    IF d.status # "completed" THEN 0
    ELSE d.amount - d.refund_amount

(* Status set by refund() after adding to refund_amount. *)
RefundStatus(d) ==
    IF d.refund_amount >= d.amount THEN "refunded" ELSE "partially_refunded"

(* document.save() of the payment instance d, called by method op(arg) on  *)
(* the document before.  A rejected save ends the caller's use of the      *)
(* instance.                                                               *)
PaySave(d, op, arg, before) ==
    IF ~PaymentValid(d)
    THEN /\ payDoc' = NoDoc
         /\ payLast' = [op |-> op, amount |-> arg, result |-> "ValidationError", before |-> before]
         /\ UNCHANGED payStore
    ELSE IF ~PaymentPreSave(d)
    THEN /\ payDoc' = NoDoc
         /\ payLast' = [op |-> op, amount |-> arg, result |-> "RefundExceedsAmount", before |-> before]
         /\ UNCHANGED payStore
    ELSE /\ payStore' = d
         /\ payDoc' = d
         /\ payLast' = [op |-> op, amount |-> arg, result |-> "ok", before |-> before]

(* new Payment(...).save() *)
CreatePaymentDoc ==
    /\ ~payStore.exists
    /\ \E amount \in PayAmounts : PaySave(NewPayment(amount), "create", amount, NoDoc)
    /\ UNCHANGED <<now, invVars, svcVars, mwVars>>

(* Payment.findById(...) *)
LoadPayment ==
    /\ payStore.exists
    /\ payDoc' = payStore
    /\ UNCHANGED <<payStore, payLast, now, invVars, svcVars, mwVars>>

(* paymentSchema.methods.process *)
Process ==
    /\ payDoc.exists
    /\ PaySave([payDoc EXCEPT !.status = "completed", !.processed_at = now],
               "process", 0, payDoc)
    /\ UNCHANGED <<now, invVars, svcVars, mwVars>>

(* paymentSchema.methods.fail *)
Fail ==
    /\ payDoc.exists
    /\ PaySave([payDoc EXCEPT !.status = "failed"], "fail", 0, payDoc)
    /\ UNCHANGED <<now, invVars, svcVars, mwVars>>

(* paymentSchema.methods.cancel *)
CancelPayment ==
    /\ payDoc.exists
    /\ PaySave([payDoc EXCEPT !.status = "cancelled"], "cancel", 0, payDoc)
    /\ UNCHANGED <<now, invVars, svcVars, mwVars>>

(* paymentSchema.methods.allocateToInvoice *)
AllocateToInvoice ==
    /\ payDoc.exists
    /\ Len(payDoc.allocation) < MaxAllocations
    /\ \E invoiceId \in AllocationInvoices, amount \in AllocationAmounts :
          PaySave([payDoc EXCEPT !.allocation =
                      Append(@, [invoice_id |-> invoiceId, amount |-> amount,
                                 allocated_at |-> now])],
                  "allocateToInvoice", amount, payDoc)
    /\ UNCHANGED <<now, invVars, svcVars, mwVars>>

(* paymentSchema.methods.refund *)
Refund ==
    /\ payDoc.exists
    /\ \E refundAmount \in RefundAmounts :
          IF refundAmount > RefundableAmount(payDoc)
          THEN \* throw new Error('Refund amount cannot exceed refundable amount ...')
               /\ payLast' = [op |-> "refund", amount |-> refundAmount,
                              result |-> "RefundExceedsPayment", before |-> payDoc]
               /\ UNCHANGED <<payStore, payDoc>>
          ELSE LET d1 == [payDoc EXCEPT !.refund_amount = @ + refundAmount,
                                        !.refunded_at = now]
                   d2 == [d1 EXCEPT !.status = RefundStatus(d1)]
               IN  PaySave(d2, "refund", refundAmount, payDoc)
    /\ UNCHANGED <<now, invVars, svcVars, mwVars>>

----------------------------------------------------------------------------
(* -------- SubscriptionService over the SQL schema (part_000, part_007) -------- *)

MaxRequests == 2     \* writing requests handled per run
MaxPayments == 3     \* rows of the payments table
MaxSamples == 2      \* rows of the usage_metrics table

Tenants == {"A", "B"}

(* No tenant: an absent tenantId in a request body, and the session        *)
(* setting app.current_tenant_id when it is not set (NULL).                *)
NoTenant == "none"

(* The workers that execute createPayment requests concurrently. *)
Procs == {"p1", "p2"}

(* Ids of the invoices in the table; 0 stands for an absent invoiceId. *)
InvoiceIds == 1..2

(* Ids a request can name for a subscription. *)
SubscriptionIds == 1..2

(* Slugs of seeded plans, and a plan id that matches no plan. *)
PlanIds == {"basic", "professional"}
PlanInputs == {"basic", "professional", "unknown"}

BillingCycles == {"monthly", "yearly"}
TrialDays == {0, 14}
MonthDays == 30
YearDays == 365

(* amount of a createPayment request *)
ServicePayAmounts == {40, 70}

(* updateData of updateSubscription; "" is an absent field. *)
SubscriptionUpdates ==
    { [planId |-> "",             status |-> ""],
      [planId |-> "professional", status |-> ""],
      [planId |-> "unknown",      status |-> ""],
      [planId |-> "",             status |-> "active"],
      [planId |-> "",             status |-> "cancelled"] }

(* The values current_tenant_id() can have in the pooled session that runs *)
(* a statement.  The one statement that would set app.current_tenant_id    *)
(* (tenant.middleware.ts, line 117) names a pool that is out of scope      *)
(* there and hands the value to SET as a bind parameter, which SET does    *)
(* not take, so the setting is NULL in every session.                      *)
DbSessions == {NoTenant}

(* CHECK (tenant_id = current_tenant_id()): a CHECK rejects a row only     *)
(* when its expression is false, so NULL lets the row pass.                *)
TenantCheck(db, tenantId) == db = NoTenant \/ db = tenantId

(* CHECK (total_amount >= 0 AND paid_amount >= 0 AND paid_amount <= total_amount) *)
InvoicesAmountCheck(row) ==
    row.total_amount >= 0 /\ row.paid_amount >= 0 /\ row.paid_amount <= row.total_amount

(* CHECK (amount >= 0 AND fee >= 0 AND refund_amount >= 0 AND refund_amount <= amount) *)
PaymentsAmountCheck(row) ==
    row.amount >= 0 /\ row.refund_amount >= 0 /\ row.refund_amount <= row.amount

(* The invoices in the table when the service starts: one draft invoice of *)
(* total 110 per tenant, nothing paid.                                     *)
InvoiceOwner(i) == IF i = 1 THEN "A" ELSE "B"

InitInvoices ==
    [i \in InvoiceIds |->
        [tenant_id |-> InvoiceOwner(i), subtotal |-> 100, tax_amount |-> 10,
         discount_amount |-> 0, total_amount |-> 110, paid_amount |-> 0,
         status |-> "draft"]]

(* generated column balance_amount *)
BalanceAmount(row) == row.total_amount - row.paid_amount

IdleReq == [pc |-> "idle", tenant |-> NoTenant, tenantId |-> NoTenant,
            invoiceId |-> 0, amount |-> 0, paymentId |-> 0]

(* The response of a request: the handler, the tenant of the request, the  *)
(* outcome, the owners (tenant_id) of the rows returned, and for           *)
(* createPayment the statement that failed and the payment row inserted.   *)
Response(op, tenant, result, owners) ==
    [op |-> op, tenant |-> tenant, result |-> result, owners |-> owners,
     failedAt |-> "", paymentId |-> 0]

ReadOps == {"getInvoice", "getInvoices", "getPayments", "getBillingEvents",
            "getUsageMetrics"}

(* tenantId: req.tenant!.id, ...req.body -- a tenantId in the body         *)
(* replaces the one of the request's tenant.                               *)
SpreadTenantId(tenant, bodyTenantId) ==
    IF bodyTenantId = NoTenant THEN tenant ELSE bodyTenantId

(* A row of billing_events *)
BillingEvent(tenantId, eventType) == [tenant_id |-> tenantId, event_type |-> eventType]

(* The sessions the INSERT of createBillingEvent can meet: pool.query       *)
(* rejects when the server cannot be reached or refuses the statement.     *)
Unavailable == "unavailable"
EventSessions == DbSessions \cup {Unavailable}

(* A createBillingEvent that stores nothing *)
NoBillingEvent(db, tenantId, eventType) == events

(* createBillingEvent run in session db: the table after it, unchanged if  *)
(* the INSERT is rejected.                                                 *)
CreateBillingEventOk(db, tenantId) == db # Unavailable /\ TenantCheck(db, tenantId)

CreateBillingEvent(db, tenantId, eventType) ==
    IF CreateBillingEventOk(db, tenantId)
    THEN Append(events, BillingEvent(tenantId, eventType))
    ELSE events

(* now plus one billing period *)
CurrentPeriodEnd(billingCycle, t) ==
    IF billingCycle = "yearly" THEN t + YearDays ELSE t + MonthDays

(* The row createSubscription inserts. trialEnd is null (0) for falsy      *)
(* trialDays.                                                              *)
NewSubscription(tenantId, planId, billingCycle, trialDays, t) ==
    LET trialEnd == IF trialDays # 0 THEN t + trialDays ELSE 0
    IN  [tenant_id |-> tenantId, plan_id |-> planId,
         status |-> IF trialEnd # 0 THEN "trial" ELSE "active",
         current_period_start |-> t,
         current_period_end |-> IF trialEnd # 0 THEN trialEnd ELSE t,
         trial_end |-> trialEnd, cancelled_at |-> 0,
         billing_cycle |-> billingCycle,
         next_billing_at |-> CurrentPeriodEnd(billingCycle, t)]

(* tenant_subscriptions without the constraint *)
NoUniqueTenant(rows, tenantId) == TRUE

(* UNIQUE(tenant_id) of tenant_subscriptions: whether the table takes a    *)
(* row of the tenant.                                                      *)
UniqueTenant(rows, tenantId) ==
    ~\E s \in 1..Len(rows) : rows[s].tenant_id = tenantId

(* SubscriptionController.createSubscription / SubscriptionService.createSubscription *)
CreateSubscription(tenant) ==
    /\ nreq < MaxRequests
    /\ \E bodyTenantId \in Tenants \cup {NoTenant}, planId \in PlanInputs,
          billingCycle \in BillingCycles, trialDays \in TrialDays,
          db1 \in DbSessions, db2 \in EventSessions :
          LET tenantId == SpreadTenantId(tenant, bodyTenantId)
              row == NewSubscription(tenantId, planId, billingCycle, trialDays, now)
          IN  IF planId \notin PlanIds
              THEN /\ last' = Response("createSubscription", tenant, "PlanNotFound", {})
                   /\ UNCHANGED <<subscriptions, events>>
              ELSE IF \/ ~UniqueTenant(subscriptions, tenantId)
                      \/ ~TenantCheck(db1, tenantId)
              THEN /\ last' = Response("createSubscription", tenant, "DbError", {})
                   /\ UNCHANGED <<subscriptions, events>>
              ELSE /\ subscriptions' = Append(subscriptions, row)
                   /\ events' = CreateBillingEvent(db2, tenantId, "subscription.created")
                   /\ last' = Response("createSubscription", tenant,
                                       IF CreateBillingEventOk(db2, tenantId) THEN "ok" ELSE "DbError",
                                       {tenantId})
    /\ ctx' = tenant
    /\ nreq' = nreq + 1
    /\ UNCHANGED <<invoices, payments, reqs, usage, now, invVars, payVars, mwVars>>

(* The row after UPDATE tenant_subscriptions SET <fields of updateData> *)
UpdatedSubscription(row, updateData, t) ==
    [row EXCEPT !.plan_id = IF updateData.planId # "" THEN updateData.planId ELSE @,
                !.status = IF updateData.status # "" THEN updateData.status ELSE @,
                !.cancelled_at = IF updateData.status = "cancelled" THEN t ELSE @]

(* SubscriptionService.updateSubscription(id, updateData), called by       *)
(* handler op for a request of tenant; the UPDATE runs in session db1 and  *)
(* the billing event INSERT in session db2.                                *)
UpdateSubscriptionCall(op, tenant, id, updateData, db1, db2) ==
    IF updateData.planId = "" /\ updateData.status = ""
    THEN \* throw new ApiError('No fields to update', 400)
         /\ last' = Response(op, tenant, "NoFieldsToUpdate", {})
         /\ UNCHANGED <<subscriptions, events>>
    ELSE IF id \notin 1..Len(subscriptions)
    THEN \* no row matches: result.rows[0] is undefined and .tenant_id throws
         /\ last' = Response(op, tenant, "TypeError", {})
         /\ UNCHANGED <<subscriptions, events>>
    ELSE LET row == UpdatedSubscription(subscriptions[id], updateData, now) IN
         IF row.plan_id \notin PlanIds \/ ~TenantCheck(db1, row.tenant_id)
         THEN /\ last' = Response(op, tenant, "DbError", {})
              /\ UNCHANGED <<subscriptions, events>>
         ELSE /\ subscriptions' = [subscriptions EXCEPT ![id] = row]
              /\ events' = CreateBillingEvent(db2, row.tenant_id, "subscription.updated")
              /\ last' = Response(op, tenant,
                                  IF CreateBillingEventOk(db2, row.tenant_id) THEN "ok" ELSE "DbError",
                                  {row.tenant_id})

(* SubscriptionController.updateSubscription *)
UpdateSubscription(tenant) ==
    /\ nreq < MaxRequests
    /\ \E id \in SubscriptionIds, updateData \in SubscriptionUpdates,
          db1 \in DbSessions, db2 \in EventSessions :
          UpdateSubscriptionCall("updateSubscription", tenant, id, updateData, db1, db2)
    /\ ctx' = tenant
    /\ nreq' = nreq + 1
    /\ UNCHANGED <<invoices, payments, reqs, usage, now, invVars, payVars, mwVars>>

(* SubscriptionController.cancelSubscription / SubscriptionService.cancelSubscription *)
CancelSubscription(tenant) ==
    /\ nreq < MaxRequests
    /\ \E id \in SubscriptionIds, db1 \in DbSessions, db2 \in EventSessions :
          UpdateSubscriptionCall("cancelSubscription", tenant, id,
                                 [planId |-> "", status |-> "cancelled"], db1, db2)
    /\ ctx' = tenant
    /\ nreq' = nreq + 1
    /\ UNCHANGED <<invoices, payments, reqs, usage, now, invVars, payVars, mwVars>>

(* ----------------------------- createInvoice ----------------------------- *)

(* lineItems of a createInvoice request: quantity, unitPrice, amount *)
LineItemLists ==
    { <<[quantity |-> 2, unitPrice |-> 50, amount |-> 100]>>,
      <<[quantity |-> 1, unitPrice |-> 50, amount |-> 50],
        [quantity |-> 1, unitPrice |-> 20, amount |-> 20]>> }

(* A bound value as PostgreSQL receives it: its kind and, for text, its    *)
(* length.  A dueDate of a JSON body is a string such as 2026-01-31.       *)
PgText(len) == [kind |-> "text", len |-> len]
PgNumber == [kind |-> "number", len |-> 0]
PgDate == [kind |-> "date", len |-> 10]

(* The columns $1 .. $15 of the INSERT are bound to, in order. *)
InvoiceInsertColumns ==
    <<"tenant_id", "customer_id", "subscription_id", "status", "currency",
      "subtotal", "tax_amount", "discount_amount", "total_amount", "due_date",
      "description", "line_items", "billing_address", "shipping_address", "created_by">>

(* The values array, in order: dueDate stands fourth, before 'draft'. *)
InvoiceInsertValues ==
    <<PgText(36), PgText(8), PgText(36), PgDate, PgText(5),
      PgText(3), PgNumber, PgNumber, PgNumber, PgNumber,
      PgText(8), PgText(40), PgText(2), PgText(2), PgText(36)>>

(* Whether a column of table invoices takes a bound value *)
ColumnAccepts(column, value) ==
    IF column = "status" THEN value.kind \in {"text", "date"} /\ value.len <= 20
    ELSE IF column = "currency" THEN value.kind \in {"text", "date"} /\ value.len <= 3
    ELSE IF column \in {"subtotal", "tax_amount", "discount_amount", "total_amount"}
    THEN value.kind = "number"
    ELSE IF column = "due_date" THEN value.kind = "date"
    ELSE value.kind \in {"text", "date"}

InvoiceInsertAccepted ==
    \A i \in 1..Len(InvoiceInsertColumns) :
        ColumnAccepts(InvoiceInsertColumns[i], InvoiceInsertValues[i])

(* The amounts createInvoice computes: the sum of the items' amount and a  *)
(* flat 10 percent of it.                                                  *)
InvoiceSubtotal(lineItems) == SumSeq([i \in 1..Len(lineItems) |-> lineItems[i].amount])
InvoiceTaxAmount(lineItems) == (InvoiceSubtotal(lineItems) * 10) \div 100

(* The row the INSERT would store: $k goes to the k-th column, so          *)
(* tax_amount takes subtotal, discount_amount taxAmount and total_amount 0 *)
NewInvoiceRow(tenantId, lineItems) ==
    [tenant_id |-> tenantId, subtotal |-> 0,
     tax_amount |-> InvoiceSubtotal(lineItems),
     discount_amount |-> InvoiceTaxAmount(lineItems),
     total_amount |-> 0, paid_amount |-> 0, status |-> "duedate"]

(* SubscriptionController.createInvoice / SubscriptionService.createInvoice *)
CreateInvoice(tenant) ==
    /\ nreq < MaxRequests
    /\ \E bodyTenantId \in Tenants \cup {NoTenant}, lineItems \in LineItemLists,
          db1 \in DbSessions, db2 \in EventSessions :
          LET tenantId == SpreadTenantId(tenant, bodyTenantId)
              row == NewInvoiceRow(tenantId, lineItems)
              id == Cardinality(DOMAIN invoices) + 1
          IN  IF \/ ~InvoiceInsertAccepted
                 \/ ~InvoicesAmountCheck(row)
                 \/ ~TenantCheck(db1, tenantId)
              THEN /\ last' = Response("createInvoice", tenant, "DbError", {})
                   /\ UNCHANGED <<invoices, events>>
              ELSE /\ invoices' = [i \in DOMAIN invoices \cup {id} |->
                                      IF i = id THEN row ELSE invoices[i]]
                   /\ events' = CreateBillingEvent(db2, tenantId, "invoice.created")
                   /\ last' = Response("createInvoice", tenant,
                                       IF CreateBillingEventOk(db2, tenantId) THEN "ok" ELSE "DbError",
                                       {tenantId})
    /\ ctx' = tenant
    /\ nreq' = nreq + 1
    /\ UNCHANGED <<subscriptions, payments, reqs, usage, now, invVars, payVars, mwVars>>

(* The row INSERT INTO payments stores: payment_status and refund_amount   *)
(* take their column defaults.                                             *)
NewPaymentRow(tenantId, invoiceId, amount) ==
    [tenant_id |-> tenantId, invoice_id |-> invoiceId, amount |-> amount,
     payment_status |-> "pending", refund_amount |-> 0]

(* createPayment, first statement: worker p takes a request of tenant and  *)
(* runs INSERT INTO payments.                                              *)
CreatePaymentInsert(p, tenant) ==
    /\ reqs[p].pc = "idle"
    /\ nreq < MaxRequests
    /\ Len(payments) < MaxPayments
    /\ \E bodyTenantId \in Tenants \cup {NoTenant}, invoiceId \in InvoiceIds \cup {0},
          amount \in ServicePayAmounts, db \in DbSessions :
          LET tenantId == SpreadTenantId(tenant, bodyTenantId)
              row == NewPaymentRow(tenantId, invoiceId, amount)
          IN  IF ~PaymentsAmountCheck(row) \/ ~TenantCheck(db, tenantId)
              THEN /\ last' = [Response("createPayment", tenant, "DbError", {})
                                  EXCEPT !.failedAt = "insert"]
                   /\ UNCHANGED <<payments, reqs>>
              ELSE /\ payments' = Append(payments, row)
                   /\ reqs' = [reqs EXCEPT ![p] =
                         [pc |-> IF invoiceId # 0 THEN "update" ELSE "event",
                          tenant |-> tenant, tenantId |-> tenantId,
                          invoiceId |-> invoiceId, amount |-> amount,
                          paymentId |-> Len(payments) + 1]]
                   /\ UNCHANGED last
    /\ ctx' = tenant
    /\ nreq' = nreq + 1
    /\ UNCHANGED <<subscriptions, invoices, events, usage, now, invVars, payVars, mwVars>>

(* createPayment, second statement:                                        *)
(* UPDATE invoices SET paid_amount = paid_amount + $1 WHERE id = $2        *)
CreatePaymentUpdate(p) ==
    /\ reqs[p].pc = "update"
    /\ \E db \in DbSessions :
          LET r == reqs[p]
              row == [invoices[r.invoiceId] EXCEPT !.paid_amount = @ + r.amount]
          IN  IF ~InvoicesAmountCheck(row) \/ ~TenantCheck(db, row.tenant_id)
              THEN /\ last' = [Response("createPayment", r.tenant, "DbError", {})
                                  EXCEPT !.failedAt = "update", !.paymentId = r.paymentId]
                   /\ reqs' = [reqs EXCEPT ![p] = IdleReq]
                   /\ UNCHANGED invoices
              ELSE /\ invoices' = [invoices EXCEPT ![r.invoiceId] = row]
                   /\ reqs' = [reqs EXCEPT ![p].pc = "event"]
                   /\ UNCHANGED last
    /\ ctx' = reqs[p].tenant
    /\ UNCHANGED <<subscriptions, payments, events, nreq, usage, now, invVars, payVars, mwVars>>

(* createPayment, third statement: the billing event, then the response *)
CreatePaymentEvent(p) ==
    /\ reqs[p].pc = "event"
    /\ \E db \in EventSessions :
          LET r == reqs[p] IN
          /\ events' = CreateBillingEvent(db, r.tenantId, "payment.created")
          /\ last' = IF CreateBillingEventOk(db, r.tenantId)
                     THEN [Response("createPayment", r.tenant, "ok", {r.tenantId})
                              EXCEPT !.paymentId = r.paymentId]
                     ELSE [Response("createPayment", r.tenant, "DbError", {})
                              EXCEPT !.failedAt = "event", !.paymentId = r.paymentId]
    /\ reqs' = [reqs EXCEPT ![p] = IdleReq]
    /\ ctx' = reqs[p].tenant
    /\ UNCHANGED <<subscriptions, invoices, payments, nreq, usage, now, invVars, payVars, mwVars>>

\* The list query the service builds: the select list "all columns", the
\* filters tenant_id = $1 [AND status = $2], and ORDER BY created_at DESC.
ListQuery(tenantId, status) ==
    [select |-> "all", tenant_id |-> tenantId, status |-> status, orderBy |-> "created_at"]

\* The count query: query.replace puts the aggregate COUNT in the place of
\* the select list and keeps everything else, the ORDER BY included.
CountQuery(query) == [query EXCEPT !.select = "COUNT"]

(* PostgreSQL rejects an aggregate query that orders by a column which is  *)
(* neither grouped nor aggregated.                                         *)
QueryAccepted(query) == ~(query.select = "COUNT" /\ query.orderBy # "")

(* SubscriptionController.getInvoice / SubscriptionService.getInvoice: the *)
(* row with the id, whoever owns it.                                       *)
GetInvoice(tenant) ==
    /\ \E id \in InvoiceIds \cup {0} :
          last' = IF id \in DOMAIN invoices
                  THEN Response("getInvoice", tenant, "ok", {invoices[id].tenant_id})
                  ELSE Response("getInvoice", tenant, "InvoiceNotFound", {})
    /\ ctx' = tenant
    /\ UNCHANGED <<subscriptions, invoices, payments, events, reqs, nreq, usage, now, invVars, payVars, mwVars>>

(* SubscriptionController.getInvoices / SubscriptionService.getInvoices *)
GetInvoices(tenant) ==
    /\ \E status \in {"", "draft"} :
          LET query == ListQuery(tenant, status)
              rows == {i \in DOMAIN invoices :
                          /\ invoices[i].tenant_id = query.tenant_id
                          /\ (query.status # "" => invoices[i].status = query.status)}
          IN  last' = IF ~QueryAccepted(CountQuery(query))
                      THEN Response("getInvoices", tenant, "DbError", {})
                      ELSE Response("getInvoices", tenant, "ok",
                                    {invoices[i].tenant_id : i \in rows})
    /\ ctx' = tenant
    /\ UNCHANGED <<subscriptions, invoices, payments, events, reqs, nreq, usage, now, invVars, payVars, mwVars>>

(* SubscriptionController.getPayments / SubscriptionService.getPayments *)
GetPayments(tenant) ==
    /\ \E status \in {"", "pending"} :
          LET query == ListQuery(tenant, status)
              rows == {i \in 1..Len(payments) :
                          /\ payments[i].tenant_id = query.tenant_id
                          /\ (query.status # "" => payments[i].payment_status = query.status)}
          IN  last' = IF ~QueryAccepted(CountQuery(query))
                      THEN Response("getPayments", tenant, "DbError", {})
                      ELSE Response("getPayments", tenant, "ok",
                                    {payments[i].tenant_id : i \in rows})
    /\ ctx' = tenant
    /\ UNCHANGED <<subscriptions, invoices, payments, events, reqs, nreq, usage, now, invVars, payVars, mwVars>>

(* SubscriptionController.getBillingEvents / SubscriptionService.getBillingEvents *)
GetBillingEvents(tenant) ==
    /\ \E eventType \in {"", "payment.created"} :
          LET rows == {i \in 1..Len(events) :
                          /\ events[i].tenant_id = tenant
                          /\ (eventType # "" => events[i].event_type = eventType)}
          IN  last' = Response("getBillingEvents", tenant, "ok",
                               {events[i].tenant_id : i \in rows})
    /\ ctx' = tenant
    /\ UNCHANGED <<subscriptions, invoices, payments, events, reqs, nreq, usage, now, invVars, payVars, mwVars>>

(* ------------------------- usage metrics ------------------------- *)

(* metricType of a recordUsageMetric request: a metric the seeded plans    *)
(* limit and one they do not mention.                                      *)
MetricTypes == {"users", "api_calls"}

(* metricValue of a recordUsageMetric request *)
MetricValues == {3, 6}

(* periodStart and periodEnd of a recordUsageMetric request: one billing   *)
(* period and an empty one.                                                *)
Periods == {[start |-> 1, end |-> 31], [start |-> 1, end |-> 1]}

(* subscription_plans.limits of the seeded plans; 0 stands for a metric    *)
(* the JSON object does not hold (undefined).                              *)
PlanLimit(planId, metricType) ==
    IF metricType # "users" THEN 0
    ELSE IF planId = "basic" THEN 5
    ELSE IF planId = "professional" THEN 25
    ELSE 0

(* The row INSERT INTO usage_metrics stores *)
UsageMetric(tenantId, metricType, metricValue, period) ==
    [tenant_id |-> tenantId, metric_type |-> metricType, metric_value |-> metricValue,
     period_start |-> period.start, period_end |-> period.end]

(* CONSTRAINT usage_metrics_period_check CHECK (period_end > period_start) *)
UsagePeriodCheck(row) == row.period_end > row.period_start

(* getTenantSubscription(tenantId): the rows of the tenant, whatever their *)
(* status.                                                                 *)
GetTenantSubscription(tenantId) ==
    {s \in 1..Len(subscriptions) : subscriptions[s].tenant_id = tenantId}

(* The billing event checkUsageLimits creates; its event_data holds the    *)
(* metric, the value compared and the limit.                               *)
UsageLimitEvent(tenantId, metricType, currentValue, limit) ==
    [tenant_id |-> tenantId, event_type |-> "usage_limit_exceeded",
     metricType |-> metricType, currentValue |-> currentValue, limit |-> limit]

(* if (limit && limit > 0 && currentValue > limit) *)
LimitExceeded(limit, currentValue) == limit # 0 /\ limit > 0 /\ currentValue > limit

(* checkUsageLimits(tenantId, metricType, currentValue) run in session db: *)
(* the table billing_events after it.                                      *)
CheckUsageLimits(db, tenantId, metricType, currentValue) ==
    LET found == GetTenantSubscription(tenantId) IN
    IF found = {} THEN events
    ELSE LET subscription == subscriptions[CHOOSE s \in found : TRUE]
             limit == PlanLimit(subscription.plan_id, metricType)
         IN  IF LimitExceeded(limit, currentValue) /\ CreateBillingEventOk(db, tenantId)
             THEN Append(events, UsageLimitEvent(tenantId, metricType, currentValue, limit))
             ELSE events

(* Whether checkUsageLimits ends without a rejected INSERT *)
CheckUsageLimitsOk(db, tenantId, metricType, currentValue) ==
    LET found == GetTenantSubscription(tenantId) IN
    \/ found = {}
    \/ ~LimitExceeded(PlanLimit(subscriptions[CHOOSE s \in found : TRUE].plan_id, metricType),
                      currentValue)
    \/ CreateBillingEventOk(db, tenantId)

(* SubscriptionController.recordUsageMetric / SubscriptionService.recordUsageMetric: *)
(* the INSERT of the sample, then checkUsageLimits on the sample's value.  *)
RecordUsageMetric(tenant) ==
    /\ Len(usage) < MaxSamples
    /\ \E bodyTenantId \in Tenants \cup {NoTenant}, metricType \in MetricTypes,
          metricValue \in MetricValues, period \in Periods,
          db1 \in DbSessions, db2 \in DbSessions :
          LET tenantId == SpreadTenantId(tenant, bodyTenantId)
              row == UsageMetric(tenantId, metricType, metricValue, period)
          IN  IF ~UsagePeriodCheck(row) \/ ~TenantCheck(db1, tenantId)
              THEN /\ last' = Response("recordUsageMetric", tenant, "DbError", {})
                   /\ UNCHANGED <<usage, events>>
              ELSE /\ usage' = Append(usage, row)
                   /\ events' = CheckUsageLimits(db2, tenantId, metricType, metricValue)
                   /\ last' = Response("recordUsageMetric", tenant,
                                       IF CheckUsageLimitsOk(db2, tenantId, metricType, metricValue)
                                       THEN "ok" ELSE "DbError",
                                       {tenantId})
    /\ ctx' = tenant
    /\ UNCHANGED <<subscriptions, invoices, payments, reqs, nreq, now, invVars, payVars, mwVars>>

(* SubscriptionController.getUsageMetrics / SubscriptionService.getUsageMetrics *)
GetUsageMetrics(tenant) ==
    /\ \E metricType \in MetricTypes \cup {""} :
          LET rows == {i \in 1..Len(usage) :
                          /\ usage[i].tenant_id = tenant
                          /\ (metricType # "" => usage[i].metric_type = metricType)}
          IN  last' = Response("getUsageMetrics", tenant, "ok",
                               {usage[i].tenant_id : i \in rows})
    /\ ctx' = tenant
    /\ UNCHANGED <<subscriptions, invoices, payments, events, usage, reqs, nreq, now, invVars, payVars, mwVars>>

InitServiceVars ==
    /\ subscriptions = <<>>
    /\ invoices = InitInvoices
    /\ payments = <<>>
    /\ events = <<>>
    /\ usage = <<>>
    /\ reqs = [p \in Procs |-> IdleReq]
    /\ last = Response("none", NoTenant, "none", {})
    /\ ctx = NoTenant
    /\ nreq = 0

----------------------------------------------------------------------------
(* ------------- tenant middleware (tenant.middleware.ts) ------------- *)

MaxLimit == 2            \* largest maxRequests of a rate limiter
MaxLimiterRequests == 3  \* requests one rate limiter handles per run
MaxLimiterClock == 4     \* last instant of the rate limiter's Date.now()
MaxTenantRequests == 2   \* requests through tenantMiddleware per run

(* Rows of table tenants at the start: id, slug, is_active *)
TenantTable ==
    { [id |-> "A", slug |-> "acme", is_active |-> TRUE],
      [id |-> "B", slug |-> "beta", is_active |-> TRUE],
      [id |-> "I", slug |-> "idle", is_active |-> FALSE] }

NoUser == [present |-> FALSE, tenantId |-> "", tenantSlug |-> ""]

(* req.user as the middleware finds it: unset, or identity claims with or  *)
(* without tenant fields.                                                  *)
Users ==
    { NoUser,
      [present |-> TRUE, tenantId |-> "",  tenantSlug |-> ""],
      [present |-> TRUE, tenantId |-> "A", tenantSlug |-> "acme"],
      [present |-> TRUE, tenantId |-> "",  tenantSlug |-> "beta"] }

(* Inputs of a request: the x-tenant-id and x-tenant-slug headers ("" when *)
(* absent), req.hostname as its labels, req.path as its segments.          *)
HeaderTenantIds == {"", "A", "I"}
HeaderTenantSlugs == {"", "beta"}
Hostnames == { <<"localhost">>, <<"www", "example", "com">>, <<"acme", "example", "com">> }

(* req.path inside the subscription router is the path below the mount    *)
(* point: one of the router's routes, or a path no route matches.          *)
RoutePaths == { <<"current">>, <<"usage">> }
Paths == RoutePaths \cup { <<"api", "reports">>, <<"api", "public">> }

(* req.hostname.split('.')[0], unless it is www or localhost *)
Subdomain(hostname) ==
    IF hostname[1] # "" /\ hostname[1] # "www" /\ hostname[1] # "localhost"
    THEN hostname[1] ELSE ""

(* The header method with its two branches exchanged *)
ResolveHeadersSlugFirst(headerTenantId, headerTenantSlug) ==
    IF headerTenantSlug # "" THEN [tenantId |-> "", tenantSlug |-> headerTenantSlug]
    ELSE IF headerTenantId # "" THEN [tenantId |-> headerTenantId, tenantSlug |-> ""]
    ELSE [tenantId |-> "", tenantSlug |-> ""]

(* Method 1: tenantId or tenantSlug from the headers *)
ResolveHeaders(headerTenantId, headerTenantSlug) ==
    IF headerTenantId # "" THEN [tenantId |-> headerTenantId, tenantSlug |-> ""]
    ELSE IF headerTenantSlug # "" THEN [tenantId |-> "", tenantSlug |-> headerTenantSlug]
    ELSE [tenantId |-> "", tenantSlug |-> ""]

(* tenantId and tenantSlug after the three methods (lines 39-63) *)
ResolveTenant(headerTenantId, headerTenantSlug, user, hostname) ==
    LET m1 == ResolveHeaders(headerTenantId, headerTenantSlug)
        m2 == IF m1.tenantId = "" /\ m1.tenantSlug = "" /\ user.present
              THEN [tenantId |-> user.tenantId, tenantSlug |-> user.tenantSlug]
              ELSE m1
    IN  IF m2.tenantId = "" /\ m2.tenantSlug = "" /\ Subdomain(hostname) # ""
        THEN [tenantId |-> "", tenantSlug |-> Subdomain(hostname)]
        ELSE m2

(* A lookup answered from the rows as they were at the start *)
StaleLookupTenant(tenantId, tenantSlug) ==
    {row \in TenantTable :
        /\ row.is_active
        /\ IF tenantId # "" THEN row.id = tenantId ELSE row.slug = tenantSlug}

(* SELECT ... FROM tenants WHERE is_active = true AND id = $1, or          *)
(* AND slug = $1 when there is no tenantId: the rows found.                *)
LookupTenant(tenantId, tenantSlug) ==
    {row \in tenants :
        /\ row.is_active
        /\ IF tenantId # "" THEN row.id = tenantId ELSE row.slug = tenantSlug}

(* req.path.startsWith('/api/') and none of the three public prefixes *)
IsProtectedEndpoint(path) ==
    /\ Len(path) >= 2 /\ path[1] = "api"
    /\ ~(Len(path) >= 3 /\ path[2] = "auth" /\ path[3] \in {"login", "register"})
    /\ path[2] # "public"

NoRequest ==
    [headerTenantId |-> "", headerTenantSlug |-> "", user |-> NoUser,
     hostname |-> <<"localhost">>, path |-> <<>>,
     lookup |-> [tenantId |-> "", tenantSlug |-> ""],
     tenant |-> NoTenant, outcome |-> "none", handler |-> FALSE,
     seq |-> 0, prev |-> [tenantId |-> "", tenantSlug |-> "", outcome |-> "none"]]

(* authMiddleware, which the router runs after tenantMiddleware: a request *)
(* without an authenticated identity stops there.                          *)
AuthMiddleware(user) == user.present

(* One request through the chain of the subscription router:               *)
(* tenantMiddleware, authMiddleware, then the handler of the route.        *)
(* With a tenant found, line 116 reads pool, which is declared inside the  *)
(* block of line 66 only: the read throws a ReferenceError, or with a pool *)
(* from elsewhere the SET with a bind parameter is rejected as a syntax    *)
(* error; both end in next(error), the outcome SetContextError.            *)
TenantMiddleware ==
    /\ mw.seq < MaxTenantRequests
    /\ \E headerTenantId \in HeaderTenantIds, headerTenantSlug \in HeaderTenantSlugs,
       user \in Users, hostname \in Hostnames, path \in Paths :
       LET lookup == ResolveTenant(headerTenantId, headerTenantSlug, user, hostname)
           asked == lookup.tenantId # "" \/ lookup.tenantSlug # ""
           found == IF asked THEN LookupTenant(lookup.tenantId, lookup.tenantSlug) ELSE {}
           tenant == IF found = {} THEN NoTenant ELSE (CHOOSE row \in found : TRUE).id
           outcome == IF asked /\ found = {} THEN "TenantNotFound"
                      ELSE IF IsProtectedEndpoint(path) /\ tenant = NoTenant
                      THEN "TenantContextRequired"
                      ELSE IF tenant # NoTenant THEN "SetContextError"
                      ELSE "next"
       IN  /\ mw' = [headerTenantId |-> headerTenantId, headerTenantSlug |-> headerTenantSlug,
                     user |-> user, hostname |-> hostname, path |-> path,
                     lookup |-> lookup,
                     tenant |-> IF outcome \in {"TenantNotFound", "TenantContextRequired"}
                                THEN NoTenant ELSE tenant,
                     outcome |-> outcome,
                     handler |-> /\ outcome = "next"
                                 /\ AuthMiddleware(user)
                                 /\ path \in RoutePaths,
                     seq |-> mw.seq + 1,
                     prev |-> [tenantId |-> mw.lookup.tenantId,
                               tenantSlug |-> mw.lookup.tenantSlug,
                               outcome |-> mw.outcome]]
           /\ UNCHANGED <<limiter, tenants, now, invVars, payVars, svcVars>>

(* The store's row of a tenant gets its is_active column set: the          *)
(* middleware only reads the table, the write comes from its owner.        *)
SetTenantActive(id, flag) ==
    /\ \E row \in tenants : row.id = id /\ row.is_active # flag
    /\ tenants' = {IF row.id = id THEN [row EXCEPT !.is_active = flag] ELSE row : row \in tenants}
    /\ UNCHANGED <<mw, limiter, now, invVars, payVars, svcVars>>

(* ---------------------- tenantRateLimitMiddleware ---------------------- *)

LimiterKeys == Tenants \cup {"anonymous"}

(* A limiter made by tenantRateLimitMiddleware(maxRequests, windowMs): the *)
(* Map requests is empty (count 0 stands for no entry); log keeps what     *)
(* each request got.                                                       *)
NewLimiter(maxRequests, windowMs) ==
    [maxRequests |-> maxRequests, windowMs |-> windowMs,
     requests |-> [k \in LimiterKeys |-> [count |-> 0, resetTime |-> 0]],
     clock |-> 1, log |-> <<>>, cleanup |-> FALSE]

(* A limiter made by the tenantRateLimitMiddleware of the security         *)
(* middleware, which has a clean-up loop in its new-window branch.         *)
NewSecurityLimiter(maxRequests, windowMs) ==
    [NewLimiter(maxRequests, windowMs) EXCEPT !.cleanup = TRUE]

(* requests.size above which the clean-up loop runs *)
CleanupSize == 1000

(* requests.size *)
MapSize(requests) == Cardinality({k \in LimiterKeys : requests[k].count > 0})

(* The clean-up loop: for every entry, delete it if now > resetTime *)
CleanUp(requests, t) ==
    [k \in LimiterKeys |->
        IF requests[k].count > 0 /\ t > requests[k].resetTime
        THEN [count |-> 0, resetTime |-> 0]
        ELSE requests[k]]

(* The middleware the factory returns, for a request of tenantId *)
RateLimit(tenantId) ==
    /\ Len(limiter.log) < MaxLimiterRequests
    /\ LET t == limiter.clock
           tenantRequests == limiter.requests[tenantId]
       IN  IF tenantRequests.count = 0 \/ t > tenantRequests.resetTime
           THEN limiter' = [limiter EXCEPT
                   !.requests =
                       LET set == [@ EXCEPT ![tenantId] =
                                      [count |-> 1, resetTime |-> t + limiter.windowMs]]
                       IN  IF limiter.cleanup /\ MapSize(set) > CleanupSize
                           THEN CleanUp(set, t)
                           ELSE set,
                   !.log = Append(@, [tenantId |-> tenantId, at |-> t, outcome |-> "next",
                                      reset |-> t + limiter.windowMs])]
           ELSE IF tenantRequests.count >= limiter.maxRequests
           THEN limiter' = [limiter EXCEPT
                   !.log = Append(@, [tenantId |-> tenantId, at |-> t, outcome |-> "429",
                                      reset |-> tenantRequests.resetTime])]
           ELSE limiter' = [limiter EXCEPT
                   !.requests[tenantId].count = @ + 1,
                   !.log = Append(@, [tenantId |-> tenantId, at |-> t, outcome |-> "next",
                                      reset |-> tenantRequests.resetTime])]
    /\ UNCHANGED <<mw, tenants, now, invVars, payVars, svcVars>>

(* Date.now() moves on *)
LimiterTick ==
    /\ limiter.clock < MaxLimiterClock
    /\ limiter' = [limiter EXCEPT !.clock = @ + 1]
    /\ UNCHANGED <<mw, tenants, now, invVars, payVars, svcVars>>

InitMiddlewareVars ==
    /\ mw = NoRequest
    /\ limiter = NewLimiter(1, 1)
    /\ tenants = TenantTable

----------------------------------------------------------------------------
(* --------------------------- Specifications --------------------------- *)

NoCall == [op |-> "none", amount |-> 0, result |-> "none", before |-> NoDoc]

InitInvoiceVars ==
    /\ invStore = NoDoc
    /\ docs = [c \in Copies |-> NoDoc]
    /\ applied = <<>>
    /\ lastSave = "none"

InitPaymentVars ==
    /\ payStore = NoDoc
    /\ payDoc = NoDoc
    /\ payLast = NoCall

InitInvoice ==
    /\ now = 1
    /\ InitInvoiceVars
    /\ InitPaymentVars
    /\ InitMiddlewareVars
    /\ InitServiceVars

(* One caller working on the invoice through every instance method. *)
NextInvoice ==
    \/ CreateInvoiceDoc(Owner)
    \/ Load(Owner)
    \/ AddItem(Owner)
    \/ RemoveItem(Owner)
    \/ UpdateItem(Owner)
    \/ Send(Owner)
    \/ AddPayment(Owner)
    \/ Cancel(Owner)
    \/ WriteOff(Owner)
    \/ Tick

SpecInvoice == InitInvoice /\ [][NextInvoice]_vars

(* Concurrent payers: every caller loads its own copy of the invoice and   *)
(* applies payments to it; the loads and saves interleave freely.          *)
NextRace ==
    \/ CreateInvoiceDoc(Owner)
    \/ \E c \in Copies : Load(c)
    \/ \E c \in Copies : AddPayment(c)

SpecRace == InitInvoice /\ [][NextRace]_vars

InitPayment ==
    /\ now = 1
    /\ InitInvoiceVars
    /\ InitPaymentVars
    /\ InitMiddlewareVars
    /\ InitServiceVars

NextPayment ==
    \/ CreatePaymentDoc
    \/ LoadPayment
    \/ Process
    \/ Fail
    \/ CancelPayment
    \/ Refund
    \/ AllocateToInvoice
    \/ Tick

SpecPayment == InitPayment /\ [][NextPayment]_vars

(* The service handling requests of both tenants; createPayment requests   *)
(* run on two workers, one statement at a time.                            *)
Init ==
    /\ now = 1
    /\ InitInvoiceVars
    /\ InitPaymentVars
    /\ InitMiddlewareVars
    /\ InitServiceVars

Next ==
    \/ \E t \in Tenants : CreateSubscription(t)
    \/ \E t \in Tenants : UpdateSubscription(t)
    \/ \E t \in Tenants : CancelSubscription(t)
    \/ \E t \in Tenants : CreateInvoice(t)
    \/ \E p \in Procs, t \in Tenants : CreatePaymentInsert(p, t)
    \/ \E p \in Procs : CreatePaymentUpdate(p)
    \/ \E p \in Procs : CreatePaymentEvent(p)
    \/ \E t \in Tenants : GetInvoice(t)
    \/ \E t \in Tenants : GetInvoices(t)
    \/ \E t \in Tenants : GetPayments(t)
    \/ \E t \in Tenants : GetBillingEvents(t)

Spec == Init /\ [][Next]_vars

(* The subscription of a tenant over its life, and the usage recorded      *)
(* against it.  Tenant A subscribed to the basic plan on day 1, through    *)
(* createSubscription, before the requests of the run; tenant B has no     *)
(* subscription yet.                                                       *)
InitSubscription ==
    /\ now = 1
    /\ InitInvoiceVars
    /\ InitPaymentVars
    /\ InitMiddlewareVars
    /\ subscriptions = <<NewSubscription("A", "basic", "monthly", 0, 1)>>
    /\ invoices = InitInvoices
    /\ payments = <<>>
    /\ events = <<BillingEvent("A", "subscription.created")>>
    /\ usage = <<>>
    /\ reqs = [p \in Procs |-> IdleReq]
    /\ last = Response("none", NoTenant, "none", {})
    /\ ctx = NoTenant
    /\ nreq = 0

NextSubscription ==
    \/ \E t \in Tenants : CreateSubscription(t)
    \/ \E t \in Tenants : UpdateSubscription(t)
    \/ \E t \in Tenants : CancelSubscription(t)
    \/ \E t \in Tenants : RecordUsageMetric(t)
    \/ \E t \in Tenants : GetUsageMetrics(t)

SpecSubscription == InitSubscription /\ [][NextSubscription]_vars

(* Requests entering the subscription router *)
NextMiddleware ==
    \/ TenantMiddleware
    \/ \E row \in TenantTable, flag \in BOOLEAN : SetTenantActive(row.id, flag)

SpecMiddleware == Init /\ [][NextMiddleware]_vars

(* The requests of the tenants through one rate limiter *)
NextLimiter ==
    \/ \E k \in LimiterKeys : RateLimit(k)
    \/ LimiterTick

(* A limiter of any maxRequests and window *)
InitLimiter ==
    /\ now = 1
    /\ InitInvoiceVars
    /\ InitPaymentVars
    /\ InitServiceVars
    /\ mw = NoRequest
    /\ tenants = TenantTable
    /\ limiter \in {NewLimiter(maxRequests, windowMs) :
                       maxRequests \in 0..MaxLimit, windowMs \in {1, 2}}
                   \cup {NewSecurityLimiter(maxRequests, windowMs) :
                            maxRequests \in 0..MaxLimit, windowMs \in {1, 2}}

SpecLimiter == InitLimiter /\ [][NextLimiter]_vars

----------------------------------------------------------------------------
(* ---------------------------- Properties ---------------------------- *)

(* The documents a successful save() left: the caller's instance and the   *)
(* stored document of a single caller.                                     *)
SavedDocs == {docs[c] : c \in {x \in Copies : docs[x].exists /\ docs[x].saved}}

ItemTotals(d) == SumSeq([i \in 1..Len(d.items) |-> d.items[i].total])
ItemDiscounts(d) == SumSeq([i \in 1..Len(d.items) |-> d.items[i].discount])

(* C1: N concurrent payment applications of amount a to one invoice whose  *)
(* total is N*a end with the stored paid amount equal to N*a: when the     *)
(* payments applied so far are N payments of a and the invoice total is    *)
(* N*a, the stored paid_amount is N*a.                                     *)
C1_NoLostUpdate ==
    \A a \in PaymentAmounts : \A n \in 1..MaxApplied :
        ( /\ invStore.exists
          /\ Len(applied) = n
          /\ \A i \in 1..n : applied[i] = a
          /\ invStore.total_amount = n * a )
        => invStore.paid_amount = n * a

(* C4 as claimed: after every saved mutation subtotal is the sum of the    *)
(* items' totals and total_amount is subtotal + tax_amount -               *)
(* discount_amount, also for items with a discount.                        *)
C4_TotalsMinusDiscount ==
    \A d \in SavedDocs \cup {x \in {invStore} : x.exists} :
        /\ d.subtotal = ItemTotals(d)
        /\ d.total_amount = d.subtotal + d.tax_amount - d.discount_amount

(* C4 as amended: after every successful save the saved invoice has        *)
(* subtotal equal to the sum of its items' totals, discount_amount equal   *)
(* to the sum of the item discounts, and total_amount equal to subtotal +  *)
(* tax_amount: the discounts are deducted once, in the item totals.        *)
C4_SavedTotals ==
    \A d \in SavedDocs \cup {x \in {invStore} : x.exists} :
        /\ d.subtotal = ItemTotals(d)
        /\ d.discount_amount = ItemDiscounts(d)
        /\ d.total_amount = d.subtotal + d.tax_amount

(* C4 witness: a saved, partly paid invoice holding a discounted and taxed *)
(* item, for which the two readings of total_amount differ.                *)
C4_Witness ==
    /\ lastSave = "ok"
    /\ docs[Owner].exists /\ docs[Owner].saved
    /\ docs[Owner].status = "partially_paid"
    /\ docs[Owner].discount_amount > 0
    /\ docs[Owner].tax_amount > 0
    /\ \E i \in 1..Len(docs[Owner].items) : docs[Owner].items[i].discount > 0

(* C5: in every state of an invoice its balance is total_amount -          *)
(* paid_amount and is never negative, and paid_amount never exceeds        *)
(* total_amount.                                                           *)
C5_BalanceNeverNegative ==
    \A d \in SavedDocs \cup {x \in {invStore} : x.exists} :
        /\ d.balance_due = d.total_amount - d.paid_amount
        /\ d.balance_due >= 0
        /\ d.paid_amount <= d.total_amount

(* Sum of the amounts of the payment rows linked to invoice i whose status *)
(* is in statuses.                                                         *)
PaymentsOf(i, statuses) ==
    SumSeq([k \in 1..Len(payments) |->
               IF payments[k].invoice_id = i /\ payments[k].payment_status \in statuses
               THEN payments[k].amount ELSE 0])

(* No worker is in the middle of a createPayment for invoice i. *)
Settled(i) == \A p \in Procs : reqs[p].pc = "idle" \/ reqs[p].invoiceId # i

(* C2: a read handled for a tenant returns only rows whose tenant_id is    *)
(* that tenant, whatever id or filter the request supplies.                *)
C2_TenantReadIsolation ==
    last.op \in ReadOps => last.owners \subseteq {last.tenant}

(* C3: a statement run for a request of tenant A never changes an invoice  *)
(* row or a subscription row owned by another tenant: every step that      *)
(* changes such a row is a step of a request of the row's owner.           *)
C3_TenantWriteIsolation ==
    [][ /\ \A i \in DOMAIN invoices :
              invoices'[i] # invoices[i] => ctx' = invoices[i].tenant_id
        /\ \A k \in 1..Len(subscriptions) :
              subscriptions'[k] # subscriptions[k] => ctx' = subscriptions[k].tenant_id ]_vars

(* C6: once a payment is applied to an invoice, through addPayment on the  *)
(* document or through createPayment on the invoices row, its status is    *)
(* re-derived: paid when paid > 0 and the balance is <= 0, partially_paid  *)
(* when 0 < paid < total.                                                  *)
C6_StatusRederived ==
    /\ \A d \in SavedDocs \cup {x \in {invStore} : x.exists} :
          /\ (d.paid_amount > 0 /\ d.total_amount - d.paid_amount <= 0) => d.status = "paid"
          /\ (0 < d.paid_amount /\ d.paid_amount < d.total_amount) => d.status = "partially_paid"
    /\ \A i \in DOMAIN invoices :
          Settled(i) =>
             /\ (invoices[i].paid_amount > 0 /\ BalanceAmount(invoices[i]) <= 0)
                   => invoices[i].status = "paid"
             /\ (0 < invoices[i].paid_amount
                     /\ invoices[i].paid_amount < invoices[i].total_amount)
                   => invoices[i].status = "partially_paid"

(* C7: createPayment is all-or-nothing: when its invoice update fails, the *)
(* payment row it inserted is not in the table, and whenever no            *)
(* createPayment is running on an invoice the invoice's paid_amount        *)
(* includes every payment row recorded for it.                             *)
C7_AllOrNothing ==
    /\ (last.op = "createPayment" /\ last.failedAt = "update")
          => last.paymentId \notin 1..Len(payments)
    /\ \A i \in DOMAIN invoices :
          Settled(i) => invoices[i].paid_amount = PaymentsOf(i, PaymentStatus \cup {"succeeded"})

(* C8: in every state an invoice's paid_amount is the sum of the amounts   *)
(* of its payments that have succeeded; a pending payment adds nothing.    *)
C8_PaidIsSucceededSum ==
    \A i \in DOMAIN invoices :
        invoices[i].paid_amount = PaymentsOf(i, {"succeeded", "completed"})

(* C9: in every state of a payment refund_amount <= amount, and            *)
(* refund_amount = amount implies status refunded.                         *)
C9_RefundInvariant ==
    \A d \in {x \in {payStore, payDoc} : x.exists} :
        /\ d.refund_amount <= d.amount
        /\ (d.refund_amount = d.amount => d.status = "refunded")

(* C10: on a payment that has succeeded, a refund of r within the          *)
(* remainder amount - refund_amount succeeds and adds r to refund_amount;  *)
(* a refund that fails leaves refund_amount and status as they were.       *)
C10_RefundWithinRemainder ==
    (payLast.op = "refund" /\ payLast.before.processed_at # 0
        /\ payLast.before.status \in {"completed", "partially_refunded"})
    => /\ (payLast.amount > 0
             /\ payLast.amount <= payLast.before.amount - payLast.before.refund_amount)
          => /\ payLast.result = "ok"
             /\ payStore.refund_amount = payLast.before.refund_amount + payLast.amount
       /\ payLast.result # "ok"
          => /\ payStore.refund_amount = payLast.before.refund_amount
             /\ payStore.status = payLast.before.status

(* Statuses of an invoice that is closed to payments. *)
ClosedStatus == {"cancelled", "written_off", "void"}

(* Statuses in which the monetary fields of an invoice are frozen. *)
FrozenStatus == {"paid", "cancelled", "written_off", "void"}

(* C11: a payment application to an invoice whose status is cancelled or   *)
(* written_off is rejected: no step applies an addPayment to a stored      *)
(* document in such a status, and no step changes the paid_amount of an    *)
(* invoices row in such a status.                                          *)
C11_InvoiceClosed ==
    [][ /\ (invStore.exists /\ invStore.status \in ClosedStatus)
              => /\ applied' = applied
                 /\ invStore'.paid_amount = invStore.paid_amount
        /\ \A i \in DOMAIN invoices :
              invoices[i].status \in ClosedStatus
                 => invoices'[i].paid_amount = invoices[i].paid_amount ]_vars

(* C12: once the stored invoice is paid, cancelled or written_off, a step  *)
(* that is not a payment (addItem, removeItem, updateItem among them)      *)
(* leaves subtotal, tax_amount, discount_amount, total_amount and          *)
(* paid_amount as they were.                                               *)
C12_FrozenTotals ==
    [][ (invStore.exists /\ invStore.status \in FrozenStatus /\ applied' = applied)
           => /\ invStore'.subtotal = invStore.subtotal
              /\ invStore'.tax_amount = invStore.tax_amount
              /\ invStore'.discount_amount = invStore.discount_amount
              /\ invStore'.total_amount = invStore.total_amount
              /\ invStore'.paid_amount = invStore.paid_amount ]_vars


(* The usage_limit_exceeded events of a tenant and metric in the log *)
OverageEvents(log, tenantId, metricType) ==
    {e \in 1..Len(log) :
        /\ log[e].tenant_id = tenantId
        /\ log[e].event_type = "usage_limit_exceeded"
        /\ log[e].metricType = metricType}

(* The periods in which the tenant has samples of the metric *)
UsagePeriods(rows, tenantId, metricType) ==
    {<<rows[i].period_start, rows[i].period_end>> :
        i \in {j \in 1..Len(rows) : /\ rows[j].tenant_id = tenantId
                                    /\ rows[j].metric_type = metricType}}

(* The sum of the sample values of a tenant, metric and period *)
RECURSIVE AggregateUsage(_, _, _, _, _)
AggregateUsage(rows, n, tenantId, metricType, period) ==
    IF n = 0 THEN 0
    ELSE AggregateUsage(rows, n - 1, tenantId, metricType, period)
         + (IF /\ rows[n].tenant_id = tenantId
               /\ rows[n].metric_type = metricType
               /\ <<rows[n].period_start, rows[n].period_end>> = period
            THEN rows[n].metric_value ELSE 0)

(* C13: for each tenant, metric type and period the billing event log      *)
(* holds at most one usage_limit_exceeded event: the tenant's overage      *)
(* events of a metric are never more than the periods it has samples in.   *)
C13_OneOveragePerPeriod ==
    \A t \in Tenants, m \in MetricTypes :
        Cardinality(OverageEvents(events, t, m)) <= Cardinality(UsagePeriods(usage, t, m))

(* C14: recordUsageMetric compares the aggregate of the tenant, metric and *)
(* period, the new sample included, with the plan limit: a sample stored   *)
(* for a subscribed tenant that takes the aggregate above a positive limit *)
(* appends a usage_limit_exceeded event of that tenant and metric.         *)
C14_AggregateCompared ==
    [][ (Len(usage') = Len(usage) + 1 /\ subscriptions' = subscriptions)
           => LET row == usage'[Len(usage')]
                  found == GetTenantSubscription(row.tenant_id)
              IN  (/\ found # {}
                   /\ \E s \in found :
                         LET limit == PlanLimit(subscriptions[s].plan_id, row.metric_type)
                         IN  /\ limit > 0
                             /\ AggregateUsage(usage', Len(usage'), row.tenant_id, row.metric_type,
                                               <<row.period_start, row.period_end>>) > limit)
                  => /\ Len(events') = Len(events) + 1
                     /\ events'[Len(events')].tenant_id = row.tenant_id
                     /\ events'[Len(events')].event_type = "usage_limit_exceeded" ]_vars

(* The subscription.created events of a tenant in the log *)
CreatedEvents(log, tenantId) ==
    {e \in 1..Len(log) : /\ log[e].tenant_id = tenantId
                         /\ log[e].event_type = "subscription.created"}

(* C15: each tenant has at most one subscription, and a createSubscription *)
(* for a tenant that already has one fails, leaves the existing            *)
(* subscription unchanged and appends no subscription.created event: a     *)
(* createSubscription that answers ok has added the first row of its       *)
(* tenant, and no createSubscription touches the row or adds to the        *)
(* subscription.created events of a tenant that had a subscription.        *)
C15_OneSubscriptionPerTenant ==
    [][ /\ \A t \in Tenants :
              Cardinality({s \in 1..Len(subscriptions') : subscriptions'[s].tenant_id = t}) <= 1
        /\ (last'.op = "createSubscription" /\ nreq' = nreq + 1 /\ reqs' = reqs)
              => /\ \A s \in 1..Len(subscriptions) :
                       /\ s \in 1..Len(subscriptions')
                       /\ subscriptions'[s] = subscriptions[s]
                       /\ CreatedEvents(events', subscriptions[s].tenant_id)
                             = CreatedEvents(events, subscriptions[s].tenant_id)
                 /\ last'.result = "ok"
                       => /\ Len(subscriptions') = Len(subscriptions) + 1
                          /\ UniqueTenant(subscriptions, subscriptions'[Len(subscriptions')].tenant_id)
                 /\ last'.result # "ok"
                       => \/ UNCHANGED <<subscriptions, events>>
                          \/ /\ Len(subscriptions') = Len(subscriptions) + 1
                             /\ UniqueTenant(subscriptions,
                                             subscriptions'[Len(subscriptions')].tenant_id)
                             /\ events' = events ]_vars

(* A createSubscription was refused for a tenant that has a subscription *)
C15_Witness ==
    /\ last.op = "createSubscription"
    /\ last.result = "DbError"
    /\ Len(subscriptions) = 1
    /\ Cardinality(CreatedEvents(events, subscriptions[1].tenant_id)) = 1

(* C16: cancelled is a terminal subscription status: no request changes    *)
(* the status of a subscription that is cancelled.                         *)
C16_CancelledTerminal ==
    [][ \A s \in 1..Len(subscriptions) :
           subscriptions[s].status = "cancelled"
              => subscriptions'[s].status = "cancelled" ]_vars

(* C17: tenant resolution uses the identifier of the highest-priority      *)
(* source present, in the order tenant-id header, tenant-slug header,      *)
(* identity-claim tenant fields, hostname subdomain, and the tenant found  *)
(* is the active tenant that identifier names.                             *)
C17_ResolutionPriority ==
    [][ mw'.seq = mw.seq + 1 =>
          /\ mw'.lookup =
                IF mw'.headerTenantId # ""
                THEN [tenantId |-> mw'.headerTenantId, tenantSlug |-> ""]
                ELSE IF mw'.headerTenantSlug # ""
                THEN [tenantId |-> "", tenantSlug |-> mw'.headerTenantSlug]
                ELSE IF mw'.user.present /\ (mw'.user.tenantId # "" \/ mw'.user.tenantSlug # "")
                THEN [tenantId |-> mw'.user.tenantId, tenantSlug |-> mw'.user.tenantSlug]
                ELSE IF Subdomain(mw'.hostname) # ""
                THEN [tenantId |-> "", tenantSlug |-> Subdomain(mw'.hostname)]
                ELSE [tenantId |-> "", tenantSlug |-> ""]
          /\ mw'.tenant # NoTenant
                => \E row \in tenants :
                      /\ row.id = mw'.tenant /\ row.is_active
                      /\ mw'.lookup.tenantId # "" => row.id = mw'.lookup.tenantId
                      /\ mw'.lookup.tenantId = "" => row.slug = mw'.lookup.tenantSlug ]_vars

(* A request naming tenants in both headers, its claims and its hostname   *)
(* was resolved by the tenant-id header.                                   *)
C17_Witness ==
    /\ mw.headerTenantId = "A" /\ mw.headerTenantSlug = "beta"
    /\ mw.user.tenantSlug = "beta" /\ Subdomain(mw.hostname) = "acme"
    /\ mw.lookup.tenantId = "A" /\ mw.tenant = "A"

(* C18: a request for a protected operation with no tenant resolved is     *)
(* rejected with TenantContextRequired and reaches no handler, and no      *)
(* handler of the subscription router runs without a resolved tenant.      *)
C18_TenantContextRequired ==
    /\ (/\ mw.outcome # "none"
        /\ IsProtectedEndpoint(mw.path)
        /\ mw.lookup.tenantId = "" /\ mw.lookup.tenantSlug = "")
          => mw.outcome = "TenantContextRequired" /\ ~mw.handler
    /\ mw.handler => mw.tenant # NoTenant

(* The requests of a tenant the limiter admitted in the window that ends   *)
(* at reset.                                                               *)
Admitted(tenantId, reset) ==
    {i \in 1..Len(limiter.log) :
        /\ limiter.log[i].tenantId = tenantId
        /\ limiter.log[i].outcome = "next"
        /\ limiter.log[i].reset = reset}

(* C19: the rate limiter admits at most maxRequests requests of a tenant   *)
(* inside one window, and every further request of the tenant inside the   *)
(* window is answered 429 with the window's reset time.                    *)
C19_RateLimit ==
    /\ \A k \in LimiterKeys, reset \in 1..(MaxLimiterClock + 2) :
          Cardinality(Admitted(k, reset)) <= limiter.maxRequests
    /\ \A i \in 1..Len(limiter.log) :
          limiter.log[i].outcome # "next"
             => /\ limiter.log[i].outcome = "429"
                /\ limiter.log[i].at <= limiter.log[i].reset
                /\ \E j \in 1..(i - 1) :
                      /\ limiter.log[j].tenantId = limiter.log[i].tenantId
                      /\ limiter.log[j].reset = limiter.log[i].reset

(* The sum of the allocation amounts of a payment document *)
AllocatedAmount(d) == SumSeq([i \in 1..Len(d.allocation) |-> d.allocation[i].amount])

(* C20: in every state of a stored payment every allocation amount is at   *)
(* least 0 and the allocation amounts sum to at most the payment amount.   *)
C20_AllocationWithinAmount ==
    payStore.exists
       => /\ \A i \in 1..Len(payStore.allocation) : payStore.allocation[i].amount >= 0
          /\ AllocatedAmount(payStore) <= payStore.amount

(* C21: cancel() leaves the invoice in status cancelled and writeOff()     *)
(* leaves it in status written_off, whatever was paid and whatever the due *)
(* date, and no later operation moves the stored invoice out of that       *)
(* status.                                                                 *)
C21_TerminalStatus ==
    [][ /\ (Cancel(Owner) /\ lastSave' = "ok") => invStore'.status = "cancelled"
        /\ (WriteOff(Owner) /\ lastSave' = "ok") => invStore'.status = "written_off"
        /\ (invStore.exists /\ invStore.status \in {"cancelled", "written_off"})
              => invStore'.status = invStore.status ]_vars

(* subscription_plans.trial_days of the seeded plans *)
PlanTrialDays(planId) == IF planId \in {"basic", "professional"} THEN 14 ELSE 0

(* C22: createSubscription stores the subscription in status trial, with   *)
(* trial_end set, exactly when the chosen plan carries trial days, and in  *)
(* status active otherwise.                                                *)
C22_TrialFromPlan ==
    [][ Len(subscriptions') = Len(subscriptions) + 1
           => LET row == subscriptions'[Len(subscriptions')]
              IN  IF PlanTrialDays(row.plan_id) > 0
                  THEN row.status = "trial" /\ row.trial_end # 0
                  ELSE row.status = "active" ]_vars

(* C28: createSubscription stores a current_period_end one month or one    *)
(* year after the creation time, so strictly later than                    *)
(* current_period_start, with or without a trial.                          *)
C28_PeriodEndAfterStart ==
    [][ Len(subscriptions') = Len(subscriptions) + 1
           => LET row == subscriptions'[Len(subscriptions')]
              IN  /\ row.current_period_end = CurrentPeriodEnd(row.billing_cycle, now)
                  /\ row.current_period_end > row.current_period_start ]_vars

(* C23: createInvoice stores the new invoice with status draft, paid       *)
(* amount 0, the subtotal of its line items, the tax on it and total =     *)
(* subtotal + tax: every createInvoice request adds such a row.            *)
C23_CreateInvoiceTotals ==
    [][ (last'.op = "createInvoice" /\ nreq' = nreq + 1 /\ reqs' = reqs)
           => \E i \in DOMAIN invoices' \ DOMAIN invoices :
                 /\ invoices'[i].status = "draft"
                 /\ invoices'[i].paid_amount = 0
                 /\ invoices'[i].subtotal > 0
                 /\ invoices'[i].tax_amount = (invoices'[i].subtotal * 10) \div 100
                 /\ invoices'[i].total_amount
                       = invoices'[i].subtotal + invoices'[i].tax_amount ]_vars

(* C24: whenever the lookup finds an active tenant for the request,        *)
(* tenantMiddleware publishes that tenant as the request's context and     *)
(* passes the request downstream without an error.                         *)
C24_ContextPublished ==
    [][ (/\ mw'.seq = mw.seq + 1
         /\ (mw'.lookup.tenantId # "" \/ mw'.lookup.tenantSlug # "")
         /\ LookupTenant(mw'.lookup.tenantId, mw'.lookup.tenantSlug) # {})
           => /\ mw'.tenant \in {row.id : row \in LookupTenant(mw'.lookup.tenantId,
                                                                mw'.lookup.tenantSlug)}
              /\ mw'.outcome = "next" ]_vars

(* The rows of table tenants a request names: by id when it carries one,   *)
(* by slug otherwise.                                                      *)
NamedTenants(tenantId, tenantSlug) ==
    {row \in tenants : IF tenantId # "" THEN row.id = tenantId ELSE row.slug = tenantSlug}

(* C25: tenant state is read from the store on every request: a request    *)
(* naming a tenant ends in TenantNotFound exactly when the store holds no  *)
(* active row for that name at the time of the request, and the tenant a   *)
(* request is given is a row active at that time, whatever earlier         *)
(* requests resolved.                                                      *)
C25_NoStaleTenant ==
    [][ mw'.seq = mw.seq + 1
          => LET named == NamedTenants(mw'.lookup.tenantId, mw'.lookup.tenantSlug)
                 asked == mw'.lookup.tenantId # "" \/ mw'.lookup.tenantSlug # ""
             IN  /\ (mw'.outcome = "TenantNotFound")
                       <=> (asked /\ \A row \in named : ~row.is_active)
                 /\ mw'.tenant # NoTenant
                       => \E row \in named : row.is_active /\ row.id = mw'.tenant ]_vars

(* A tenant resolved by one request, deactivated, and refused to the next  *)
(* request naming it                                                       *)
C25_Witness ==
    /\ mw.seq = 2
    /\ mw.prev.tenantId = "A" /\ mw.prev.outcome \notin {"none", "TenantNotFound"}
    /\ mw.lookup.tenantId = "A" /\ mw.outcome = "TenantNotFound"
    /\ \E row \in tenants : row.id = "A" /\ ~row.is_active

(* The event type each mutating operation of the service records *)
EventTypeOf(op) ==
    IF op = "createSubscription" THEN "subscription.created"
    ELSE IF op \in {"updateSubscription", "cancelSubscription"} THEN "subscription.updated"
    ELSE IF op = "createInvoice" THEN "invoice.created"
    ELSE "payment.created"

(* A step in which a request of operation op ended *)
RequestEnded(op) ==
    /\ last'.op = op
    /\ IF op = "createPayment"
       THEN \E p \in Procs : reqs[p].pc # "idle" /\ reqs'[p].pc = "idle"
       ELSE nreq' = nreq + 1 /\ reqs' = reqs

(* C26: every successful createSubscription, updateSubscription,           *)
(* createInvoice and createPayment appends exactly one billing event of    *)
(* the matching type under the tenant that owns the mutated record, and an *)
(* operation that fails before its mutation (unknown plan, empty update,   *)
(* update of a non-existent subscription) appends none.  (No createInvoice *)
(* request succeeds, so its part holds of no step.)                        *)
C26_OneEventPerMutation ==
    [][ \A op \in {"createSubscription", "updateSubscription", "cancelSubscription",
                   "createInvoice", "createPayment"} :
           RequestEnded(op) =>
              /\ last'.result = "ok"
                    => /\ \E owner \in last'.owners :
                             events' = Append(events, BillingEvent(owner, EventTypeOf(op)))
                       /\ op = "createSubscription"
                             => subscriptions'[Len(subscriptions')].tenant_id
                                   = events'[Len(events')].tenant_id
                       /\ op \in {"updateSubscription", "cancelSubscription"}
                             => \E id \in 1..Len(subscriptions) :
                                   /\ subscriptions'[id] # subscriptions[id]
                                      \/ subscriptions' = subscriptions
                                   /\ subscriptions'[id].tenant_id = events'[Len(events')].tenant_id
                       /\ op = "createPayment"
                             => payments[last'.paymentId].tenant_id
                                   = events'[Len(events')].tenant_id
              /\ last'.result \in {"PlanNotFound", "NoFieldsToUpdate", "TypeError"}
                    => events' = events /\ subscriptions' = subscriptions ]_vars

(* A subscription created, then a payment recorded, each with its event *)
C26_Witness ==
    /\ last.op = "createPayment" /\ last.result = "ok"
    /\ Len(events) = 2
    /\ events[1].event_type = "subscription.created"
    /\ events[1].tenant_id = subscriptions[1].tenant_id
    /\ events[2] = BillingEvent(payments[last.paymentId].tenant_id, "payment.created")

(* C27: if appending the billing event fails during createSubscription,    *)
(* updateSubscription, createInvoice or createPayment, the mutation stays  *)
(* committed and the operation still returns its result: the failure is    *)
(* not surfaced as a failure of the operation.                             *)
C27_EventFailureNotSurfaced ==
    [][ \A op \in {"createSubscription", "updateSubscription", "cancelSubscription",
                   "createInvoice", "createPayment"} :
           (/\ RequestEnded(op)
            /\ events' = events
            /\ \/ subscriptions' # subscriptions
               \/ invoices' # invoices
               \/ op = "createPayment" /\ last'.failedAt \notin {"insert", "update"})
              => last'.result = "ok" ]_vars

(* C29: invoice status derivation is idempotent: a document saved and then *)
(* saved again at the same clock time, with total, paid amount and due     *)
(* date untouched in between, keeps the status and paid_at of the first    *)
(* save; and paid_at of the stored invoice, once stamped, is never changed *)
(* by a later save.                                                        *)
C29_DerivationIdempotent ==
    /\ [](\A c \in DOMAIN docs :
             docs[c].exists =>
                LET d1 == PreSave(docs[c], now)
                    d2 == PreSave(d1, now)
                IN  /\ d2.status = d1.status
                    /\ d2.paid_at = d1.paid_at
                    /\ d2.total_amount = d1.total_amount
                    /\ d2.balance_due = d1.balance_due)
    /\ [][ (invStore.exists /\ invStore.paid_at # 0)
              => invStore'.paid_at = invStore.paid_at ]_vars

(* An invoice paid at one time and saved again, by send(), at a later one: *)
(* it is still paid, with its first paid_at.                               *)
C29_Witness ==
    /\ invStore.exists /\ invStore.status = "paid"
    /\ invStore.paid_at # 0 /\ invStore.sent_at > invStore.paid_at
    /\ lastSave = "ok"

(* C30: the limiter's map is kept bounded by eviction: when a request      *)
(* opens a new window, no entry whose window has expired is left in the    *)
(* map after it.                                                           *)
C30_ExpiredEvicted ==
    [][ (/\ Len(limiter'.log) = Len(limiter.log) + 1
         /\ LET k == limiter'.log[Len(limiter'.log)].tenantId
            IN  \/ limiter.requests[k].count = 0
                \/ limiter.clock > limiter.requests[k].resetTime)
           => \A k \in LimiterKeys :
                 limiter'.requests[k].count > 0
                    => limiter'.clock <= limiter'.requests[k].resetTime ]_vars

=============================================================================
